---- MODULE Spec2Model ----
(***************************************************************************)
(* Offline-first synchronisation of PetShield: the client's change log     *)
(* (src/src/lib/offline.ts), the sync client (syncOfflineChanges in        *)
(* src/src/app/App.tsx, apiCall in src/lib/supabase) and the server's      *)
(* POST /sync handler (src/supabase/functions/server/index.tsx).           *)
(*                                                                         *)
(* JavaScript values are represented as follows.                           *)
(*   - a string is a tuple of ":"-free segments, so that a template string *)
(*     `${a}:${b}` is the concatenation of the tuples of a and b;          *)
(*   - an ISO timestamp (Date.toISOString) is a fixed-width tuple of       *)
(*     decimal digits, compared as JavaScript compares strings;            *)
(*   - an object is a function from field names to values; reading a field *)
(*     that is not there yields Undefined;                                 *)
(*   - undefined (and a missing kv record) is the empty tuple <<>>, which  *)
(*     is also the empty function: no modelled value is the empty string.  *)
(***************************************************************************)
EXTENDS Integers, Sequences, FiniteSets, TLC

\* ------------------------------------------------------------------ bounds
\* addChange calls the log may hold
MaxChanges == 2
\* values Date.now() takes
MaxClock == 3
\* sync attempts started by the client
MaxSyncs == 2
\* values of the Math.random() suffix of a local id
MaxRand == 2

\* ------------------------------------------------------ JavaScript values
Undefined == <<>>

Truthy(v) == v /= Undefined

Field(o, f) == IF f \in DOMAIN o THEN o[f] ELSE Undefined

\* { ...a, ...b }
Spread(a, b) ==
  [f \in DOMAIN a \cup DOMAIN b |-> IF f \in DOMAIN b THEN b[f] ELSE a[f]]

\* fields that hold a boolean
BoolFields == {"synced"}

\* JSON.stringify followed by JSON.parse of an object: undefined fields are dropped
Json(o) ==
  [f \in {g \in DOMAIN o : g \in BoolFields \/ o[g] /= Undefined} |-> o[f]]

\* the same for an array of objects
JsonList(l) == [i \in 1..Len(l) |-> Json(l[i])]

\* new Date(t).toISOString(): fixed width, most significant digit first
toISOString(t) == <<t \div 10, t % 10>>

RECURSIVE LexGreater(_, _)
LexGreater(a, b) ==
  IF a = <<>> THEN FALSE
  ELSE IF b = <<>> THEN TRUE
  ELSE IF Head(a) /= Head(b) THEN Head(a) > Head(b)
  ELSE LexGreater(Tail(a), Tail(b))

\* a > b on two strings; a comparison with undefined is false
JsGreater(a, b) == a /= Undefined /\ b /= Undefined /\ LexGreater(a, b)

\* ------------------------------------------------------------ input sets
\* the `type` argument of addChange: the operation kind of the change
Types == {<<"create">>, <<"update">>}

\* the `entity` argument of addChange
Entities == {<<"owner">>}

\* the clinic of the signed-in user
UserClinic == <<"c1">>

\* an id the client already knows
KnownId == <<"e1">>

\* the updatedAt a payload may carry (a snapshot of a record read earlier)
SnapshotStamps == {toISOString(2)}

Bodies == {[fullName |-> <<"Jane">>], [phone |-> <<"555">>]}

\* what a payload says of the record it is about: nothing (a record that has
\* no id yet), its id, or its id and the updatedAt it was read with
Headers ==
  {Undefined, [id |-> KnownId]}
    \cup {[id |-> KnownId, updatedAt |-> s] : s \in SnapshotStamps}

\* the `data` argument of addChange
Payloads == {Spread(h, b) : h \in Headers, b \in Bodies}

VARIABLES
  now,        \* the last value Date.now() returned
  changes,    \* OfflineManager.changes
  storage,    \* localStorage[OFFLINE_CHANGES_KEY]
  isOnline,   \* OfflineManager.isOnline
  syncing,    \* App state `syncing`
  calls,      \* apiCall('/sync') invocations awaiting their result
  kv,         \* the server's key-value store
  genCount,   \* ids generated by the server so far
  syncCount,  \* sync attempts started so far
  applied,    \* per key, the timestamp of the last change written to it
  trace,      \* steps of the run of the POST /sync loop that just ended
  outcome,    \* how the syncOfflineChanges run that just ended went
  lastOp,     \* the OfflineManager method that was just called on its own
  serving,    \* per request, how far the handler of POST /sync has come
  origin      \* per key, the change whose write created the record

vars == <<now, changes, storage, isOnline, syncing, calls, kv, genCount,
          syncCount, applied, trace, outcome, lastOp, serving, origin>>

\* ---------------------------------------------------------- OfflineManager
\* saveChanges: localStorage.setItem(KEY, JSON.stringify(this.changes))
saveChanges(cs) == JsonList(cs)

\* the OfflineChange built by addChange
NewChange(type, entity, data, t, rnd) ==
  [id        |-> <<t, rnd>>,
   type      |-> type,
   entity    |-> entity,
   data      |-> data,
   timestamp |-> toISOString(t),
   synced    |-> FALSE]

\* the filter gone wrong: the pending entries come out last first
SelectPendingReversed(cs) ==
  LET kept == SelectSeq(cs, LAMBDA c : ~c.synced)
  IN [k \in 1..Len(kept) |-> kept[Len(kept) + 1 - k]]

\* changes.filter(c => !c.synced)
SelectPending(cs) == SelectSeq(cs, LAMBDA c : ~c.synced)

getPendingChanges == SelectPending(changes)

\* the positions of the entries of a list that carry the id changeId
WithId(cs, changeId) == {i \in 1..Len(cs) : cs[i].id = changeId}

\* markAsSynced gone wrong: the flag is flipped instead of set
markAsSyncedToggle(cs, changeId) ==
  IF \E i \in 1..Len(cs) : cs[i].id = changeId
  THEN LET i == CHOOSE j \in 1..Len(cs) :
                  /\ cs[j].id = changeId
                  /\ \A k \in 1..(j - 1) : cs[k].id /= changeId
       IN [cs EXCEPT ![i].synced = ~@]
  ELSE cs

\* markAsSynced on a list: the first entry whose id is changeId becomes synced
markAsSynced(cs, changeId) ==
  IF \E i \in 1..Len(cs) : cs[i].id = changeId
  THEN LET i == CHOOSE j \in 1..Len(cs) :
                  /\ cs[j].id = changeId
                  /\ \A k \in 1..(j - 1) : cs[k].id /= changeId
       IN [cs EXCEPT ![i].synced = TRUE]
  ELSE cs

\* localStorage after markAsSynced: saveChanges runs when an entry was found
StorageAfterMark(store, cs, changeId) ==
  IF \E i \in 1..Len(cs) : cs[i].id = changeId
  THEN saveChanges(markAsSynced(cs, changeId))
  ELSE store

\* clearSynced gone wrong: the whole log is dropped
clearSyncedAll(cs) == <<>>

\* clearSynced gone wrong: the filter is inverted
clearSyncedInverted(cs) == SelectSeq(cs, LAMBDA c : c.synced)

\* clearSynced on a list
clearSynced(cs) == SelectPending(cs)

\* loadChanges: JSON.parse of the stored text, when there is one
loadChanges(cs, store) == IF store /= Undefined THEN JsonList(store) ELSE cs

\* ------------------------------------------------------------ POST /sync
\* `${type}:${clinicId}:${id}`
KvKey(type, clinicId, id) == type \o clinicId \o id

KvGet(store, key) == IF key \in DOMAIN store THEN store[key] ELSE Undefined

KvSet(store, key, value) ==
  [k \in DOMAIN store \cup {key} |-> IF k = key THEN value ELSE store[k]]

\* NewId gone wrong: the same id every time
NewIdFixed(clinicId, n) == <<clinicId[1] \o "-0">>

\* `${clinicId}-${Date.now()}-${Math.random()...}`: the n-th id the server makes
NewId(clinicId, n) == <<clinicId[1] \o "-" \o ToString(n)>>

\* IsConflict gone wrong: >= in place of >
IsConflictGe(existing, timestamp) ==
  /\ Truthy(existing)
  /\ Truthy(Field(existing, "updatedAt"))
  /\ ~JsGreater(timestamp, Field(existing, "updatedAt"))

\* IsConflict gone wrong: the test is skipped
IsConflictNever(existing, timestamp) == FALSE

\* existing && existing.updatedAt && existing.updatedAt > timestamp
IsConflict(existing, timestamp) ==
  /\ Truthy(existing)
  /\ Truthy(Field(existing, "updatedAt"))
  /\ JsGreater(Field(existing, "updatedAt"), timestamp)

\* AppliedRecord gone wrong: { id, clinicId, ...data }, the payload wins
AppliedRecordPayloadLast(data, id, clinicId) ==
  Spread([id |-> id, clinicId |-> clinicId], data)

\* the value written for an applied change: { ...data, id, clinicId }
AppliedRecord(data, id, clinicId) ==
  Spread(data, [id |-> id, clinicId |-> clinicId])

\* the state of one run of the handler: the store and the two arrays
StartRun(store, gen) ==
  [kv |-> store, gen |-> gen, synced |-> <<>>, conflicts |-> <<>>]

\* "Apply change": the id, kv.set, synced.push
ApplyChange(st, type, clinicId, data, localId) ==
  LET dataId == Field(data, "id")
      id     == IF Truthy(dataId) THEN dataId ELSE NewId(clinicId, st.gen + 1)
  IN [st EXCEPT
        !.kv = KvSet(@, KvKey(type, clinicId, id), AppliedRecord(data, id, clinicId)),
        !.gen = IF Truthy(dataId) THEN @ ELSE @ + 1,
        !.synced = Append(@, [localId |-> localId, id |-> id])]

\* PushConflict gone wrong: the `continue` is missing, the change is applied too
PushConflictAndApply(st, type, clinicId, data, localId, existing) ==
  ApplyChange(
    [st EXCEPT !.conflicts = Append(@, [localId |-> localId, existing |-> existing,
                                        incoming |-> data])],
    type, clinicId, data, localId)

\* conflicts.push({ localId, existing, incoming: data }); continue
PushConflict(st, type, clinicId, data, localId, existing) ==
  [st EXCEPT !.conflicts = Append(@, [localId |-> localId, existing |-> existing,
                                      incoming |-> data])]

\* one iteration of `for (const change of changes)`
SyncStep(st, change, clinicId) ==
  LET type      == Field(change, "type")
      data      == Field(change, "data")
      localId   == Field(change, "localId")
      timestamp == Field(change, "timestamp")
      dataId    == Field(data, "id")
      existing  == IF Truthy(dataId)
                   THEN KvGet(st.kv, KvKey(type, clinicId, dataId))
                   ELSE Undefined
  IN IF Truthy(dataId) /\ IsConflict(existing, timestamp)
     THEN PushConflict(st, type, clinicId, data, localId, existing)
     ELSE ApplyChange(st, type, clinicId, data, localId)

\* what one iteration did, for the record: the verdict is the array that grew,
\* the key is the one the iteration read or wrote
StepRecord(st, st2, change, clinicId) ==
  LET verdict == IF Len(st2.synced) > Len(st.synced) THEN "synced"
                 ELSE IF Len(st2.conflicts) > Len(st.conflicts) THEN "conflict"
                 ELSE "none"
      id == IF verdict = "synced" THEN st2.synced[Len(st2.synced)].id
            ELSE Field(Field(change, "data"), "id")
  IN [change |-> change, verdict |-> verdict, id |-> id,
      key |-> KvKey(Field(change, "type"), clinicId, id),
      before |-> st.kv, after |-> st2.kv]

\* the whole loop, in the order of the array; steps collects the records
RECURSIVE SyncLoop(_, _, _, _)
SyncLoop(st, steps, batch, clinicId) ==
  IF batch = <<>> THEN [run |-> st, steps |-> steps]
  ELSE LET st2 == SyncStep(st, Head(batch), clinicId)
       IN SyncLoop(st2, Append(steps, StepRecord(st, st2, Head(batch), clinicId)),
                   Tail(batch), clinicId)

\* one iteration inside its try: when kv.get or kv.set throws, the catch logs
\* the error and the loop goes on with neither array grown
TryStep(st, change, clinicId, throws) ==
  IF throws THEN st ELSE SyncStep(st, change, clinicId)

\* the loop when the store throws in the iterations numbered in `faults`
RECURSIVE SyncLoopThrows(_, _, _, _, _, _)
SyncLoopThrows(st, steps, batch, clinicId, pos, faults) ==
  IF batch = <<>> THEN [run |-> st, steps |-> steps]
  ELSE LET st2 == TryStep(st, Head(batch), clinicId, pos \in faults)
       IN SyncLoopThrows(st2,
                         Append(steps, StepRecord(st, st2, Head(batch), clinicId)),
                         Tail(batch), clinicId, pos + 1, faults)

\* c.json({ synced, conflicts }) as the client parses it
SyncResponse(st) ==
  [synced |-> JsonList(st.synced), conflicts |-> JsonList(st.conflicts)]

\* ------------------------------------------------------------- apiCall
\* the endpoints handleMockRequest answers (by equality or by prefix)
MockEndpoints ==
  {"/dashboard/stats", "/owners", "/animals", "/vaccination-plan",
   "/vaccination-log", "/auth/me", "/clinics/"}

\* handleMockRequest gone wrong: it answers every endpoint it does not know
\* with an empty sync result
handleMockRequestAnswersAll(endpoint) ==
  IF endpoint \in MockEndpoints
  THEN [threw |-> FALSE, value |-> [mock |-> <<endpoint>>]]
  ELSE [threw |-> FALSE, value |-> [synced |-> <<>>, conflicts |-> <<>>]]

\* handleMockRequest: a value for the endpoints it knows, an Error otherwise
handleMockRequest(endpoint) ==
  IF endpoint \in MockEndpoints
  THEN [threw |-> FALSE, value |-> [mock |-> <<endpoint>>]]
  ELSE [threw |-> TRUE, value |-> Undefined]

\* ------------------------------------------------------------------ Init
NoResult == [synced |-> <<>>, conflicts |-> <<>>]

\* no run of syncOfflineChanges has just ended
NoOutcome ==
  [ended |-> FALSE, ok |-> FALSE, fetched |-> FALSE, batch |-> <<>>,
   result |-> NoResult, verdicts |-> <<>>, before |-> <<>>, after |-> <<>>]

\* no OfflineManager method was just called on its own
NoOp ==
  [op |-> "none", arg |-> Undefined, was |-> <<>>, saved |-> TRUE,
   threw |-> FALSE]

\* trace, outcome and lastOp describe the step just taken and are forgotten by
\* the next
Forget ==
  /\ trace' = <<>> /\ outcome' = NoOutcome /\ lastOp' = NoOp
  /\ UNCHANGED <<applied, serving, origin>>

Init ==
  /\ now = 1
  /\ changes = <<>>
  /\ storage = <<>>
  /\ isOnline \in BOOLEAN
  /\ syncing = FALSE
  /\ calls = <<>>
  /\ kv = <<>>
  /\ genCount = 0
  /\ syncCount = 0
  /\ applied = <<>>
  /\ trace = <<>>
  /\ outcome = NoOutcome
  /\ lastOp = NoOp
  /\ serving = <<>>
  /\ origin = <<>>

\* --------------------------------------------------------------- actions
\* OfflineManager.addChange(type, entity, data), called when the clock reads t
\* and Math.random() yields rnd
AddChange(type, entity, data, t, rnd) ==
  /\ Len(changes) < MaxChanges
  /\ now' = t
  /\ changes' = Append(changes, NewChange(type, entity, data, t, rnd))
  /\ storage' = saveChanges(changes')
  /\ Forget
  /\ UNCHANGED <<isOnline, syncing, calls, kv, genCount, syncCount>>

\* syncOfflineChanges up to its await: the request leaves with the pending entries
BeginSync ==
  /\ getPendingChanges /= <<>>
  /\ syncCount < MaxSyncs
  /\ syncing' = TRUE
  /\ calls' = Append(calls, [batch |-> JsonList(getPendingChanges),
                             answered |-> FALSE, result |-> NoResult,
                             verdicts |-> <<>>])
  /\ syncCount' = syncCount + 1

\* window 'online': isOnline = true, the listener starts a sync
OnlineEvent ==
  /\ isOnline' = TRUE
  /\ IF getPendingChanges = <<>>
     THEN UNCHANGED <<syncing, calls, syncCount>>
     ELSE BeginSync
  /\ Forget
  /\ UNCHANGED <<now, changes, storage, kv, genCount>>

\* window 'offline': isOnline = false
OfflineEvent ==
  /\ isOnline' = FALSE
  /\ Forget
  /\ UNCHANGED <<now, changes, storage, syncing, calls, kv, genCount,
                 syncCount>>

\* the sync button, shown while there are pending changes and enabled while
\* online and not syncing
ManualSync ==
  /\ isOnline
  /\ ~syncing
  /\ BeginSync
  /\ Forget
  /\ UNCHANGED <<now, changes, storage, isOnline, kv, genCount>>

\* the timestamps of the changes written, after the steps of one more run
RECURSIVE Written(_, _)
Written(app, steps) ==
  IF steps = <<>> THEN app
  ELSE LET s == Head(steps)
       IN Written(IF s.verdict = "synced"
                  THEN KvSet(app, s.key, s.change.timestamp)
                  ELSE app,
                  Tail(steps))

\* the changes whose write has put a record under a key that held none
RECURSIVE Created(_, _)
Created(org, steps) ==
  IF steps = <<>> THEN org
  ELSE LET s == Head(steps)
       IN Created(IF s.verdict = "synced" /\ s.key \notin DOMAIN s.before
                  THEN KvSet(org, s.key, s.change)
                  ELSE org,
                  Tail(steps))

\* what the loop did with each entry of the batch, by position
Verdicts(steps) == [k \in 1..Len(steps) |-> steps[k].verdict]

\* the server runs POST /sync on the i-th request in flight
ServerSync(i) ==
  /\ ~calls[i].answered
  /\ LET done == SyncLoop(StartRun(kv, genCount), <<>>, calls[i].batch, UserClinic)
     IN /\ kv' = done.run.kv
        /\ genCount' = done.run.gen
        /\ trace' = done.steps
        /\ applied' = Written(applied, done.steps)
        /\ origin' = Created(origin, done.steps)
        /\ calls' = [calls EXCEPT ![i].answered = TRUE,
                                  ![i].result = SyncResponse(done.run),
                                  ![i].verdicts = Verdicts(done.steps)]
  /\ outcome' = NoOutcome
  /\ lastOp' = NoOp
  /\ UNCHANGED <<now, changes, storage, isOnline, syncing, syncCount, serving>>

\* POST /sync on the i-th request in flight while the store is failing: kv
\* throws in the iterations numbered in `faults`
ServerSyncThrows(i, faults) ==
  /\ ~calls[i].answered
  /\ faults /= {}
  /\ faults \subseteq 1..Len(calls[i].batch)
  /\ LET done == SyncLoopThrows(StartRun(kv, genCount), <<>>, calls[i].batch,
                                UserClinic, 1, faults)
     IN /\ kv' = done.run.kv
        /\ genCount' = done.run.gen
        /\ trace' = done.steps
        /\ applied' = Written(applied, done.steps)
        /\ origin' = Created(origin, done.steps)
        /\ calls' = [calls EXCEPT ![i].answered = TRUE,
                                  ![i].result = SyncResponse(done.run),
                                  ![i].verdicts = Verdicts(done.steps)]
  /\ outcome' = NoOutcome
  /\ lastOp' = NoOp
  /\ UNCHANGED <<now, changes, storage, isOnline, syncing, syncCount, serving>>

RemoveAt(s, i) == SubSeq(s, 1, i - 1) \o SubSeq(s, i + 1, Len(s))

\* result.synced.forEach(item => offlineManager.markAsSynced(item.localId))
RECURSIVE MarkAll(_, _)
MarkAll(cs, items) ==
  IF items = <<>> THEN cs
  ELSE MarkAll(markAsSynced(cs, Field(Head(items), "localId")), Tail(items))

\* ApplyResult gone wrong: when the response arrives every entry then in the
\* log is marked, the ones recorded after the request left included
ApplyResultMarksAll(cs, result) ==
  clearSynced([k \in 1..Len(cs) |-> [cs[k] EXCEPT !.synced = TRUE]])

\* the log after the response was applied: mark, then clearSynced
ApplyResult(cs, result) == clearSynced(MarkAll(cs, result.synced))

\* the response arrives: the rest of the try block of syncOfflineChanges
SyncReturns(i) ==
  /\ calls[i].answered
  /\ changes' = ApplyResult(changes, calls[i].result)
  /\ storage' = saveChanges(changes')
  /\ calls' = RemoveAt(calls, i)
  /\ syncing' = FALSE
  /\ outcome' = [ended |-> TRUE, ok |-> TRUE, fetched |-> TRUE,
                 batch |-> calls[i].batch, result |-> calls[i].result,
                 verdicts |-> calls[i].verdicts,
                 before |-> changes, after |-> changes']
  /\ trace' = <<>>
  /\ lastOp' = NoOp
  /\ UNCHANGED <<now, isOnline, kv, genCount, syncCount, applied,
                 serving, origin>>

\* the try block of syncOfflineChanges reaches its end with this value of
\* apiCall: `result.synced.forEach` throws a TypeError on a value without
\* `synced`
Usable(value) == "synced" \in DOMAIN value

\* fetch rejects or the response is not ok: apiCall falls back to
\* handleMockRequest('/sync'). Its Error, or a value the try block cannot use,
\* lands in the catch of syncOfflineChanges; a usable value is applied like a
\* response.
SyncFails(i) ==
  /\ LET mock == handleMockRequest("/sync")
         ok   == ~mock.threw /\ Usable(mock.value)
     IN /\ changes' = IF ok THEN ApplyResult(changes, mock.value) ELSE changes
        /\ storage' = IF ok THEN saveChanges(changes') ELSE storage
        /\ outcome' = [ended |-> TRUE, ok |-> ok, fetched |-> FALSE,
                       batch |-> calls[i].batch,
                       result |-> IF ok THEN mock.value ELSE NoResult,
                       verdicts |-> calls[i].verdicts,
                       before |-> changes, after |-> changes']
  /\ calls' = RemoveAt(calls, i)
  /\ syncing' = FALSE
  /\ trace' = <<>>
  /\ lastOp' = NoOp
  /\ UNCHANGED <<now, isOnline, kv, genCount, syncCount, applied,
                 serving, origin>>

\* the local ids of the log and of the requests in flight
IdsInUse ==
  {changes[i].id : i \in 1..Len(changes)}
    \cup UNION {{calls[i].batch[j].id : j \in 1..Len(calls[i].batch)} :
                 i \in 1..Len(calls)}

\* the suffixes Math.random() may yield at time t. Ids are only ever compared
\* for equality, so where no id of the same millisecond is in use one suffix
\* stands for all of them.
Suffixes(t) ==
  IF \E id \in IdsInUse : id[1] = t THEN 1..MaxRand ELSE {1}

\* ------------------------------------- OfflineManager called on its own
\* the log treats every type and payload alike: one of each is recorded
LogTypes == {<<"create">>}

LogPayloads == {d \in Payloads : DOMAIN d = {"fullName"}}

\* the ids a caller may pass to markAsSynced: those it has seen, and one it
\* has not
CallerIds == IdsInUse \cup {<<0, 1>>}

\* offlineManager.markAsSynced(changeId)
MarkAsSyncedCall(changeId) ==
  /\ changes' = markAsSynced(changes, changeId)
  /\ storage' = StorageAfterMark(storage, changes, changeId)
  /\ lastOp' = [op |-> "markAsSynced", arg |-> changeId, was |-> changes,
                saved |-> TRUE, threw |-> FALSE]
  /\ trace' = <<>> /\ outcome' = NoOutcome
  /\ UNCHANGED <<now, isOnline, syncing, calls, kv, genCount, syncCount,
                 applied, serving, origin>>

\* offlineManager.clearSynced()
ClearSyncedCall ==
  /\ changes' = clearSynced(changes)
  /\ storage' = saveChanges(changes')
  /\ lastOp' = [op |-> "clearSynced", arg |-> Undefined, was |-> changes,
                saved |-> TRUE, threw |-> FALSE]
  /\ trace' = <<>> /\ outcome' = NoOutcome
  /\ UNCHANGED <<now, isOnline, syncing, calls, kv, genCount, syncCount,
                 applied, serving, origin>>

\* the page is loaded again: new OfflineManager(), whose constructor runs
\* loadChanges on an empty list; the requests of the old page are gone
Reload ==
  /\ changes' = loadChanges(<<>>, storage)
  /\ isOnline' \in BOOLEAN
  /\ syncing' = FALSE
  /\ calls' = <<>>
  /\ lastOp' = [op |-> "reload", arg |-> Undefined, was |-> changes,
                saved |-> TRUE, threw |-> FALSE]
  /\ trace' = <<>> /\ outcome' = NoOutcome
  /\ UNCHANGED <<now, storage, kv, genCount, syncCount, applied,
                 serving, origin>>

Next ==
  \/ \E ty \in Types, e \in Entities, d \in Payloads, t \in now..MaxClock :
       \E r \in Suffixes(t) : AddChange(ty, e, d, t, r)
  \/ OnlineEvent
  \/ OfflineEvent
  \/ ManualSync
  \/ \E i \in 1..Len(calls) : ServerSync(i)
  \/ \E i \in 1..Len(calls) : SyncFails(i)
  \/ \E i \in 1..Len(calls) : SyncReturns(i)

Spec == Init /\ [][Next]_vars

\* the payloads recorded while the store may fail: every header, one body
KvPayloads == {d \in Payloads : Field(d, "fullName") /= Undefined}

\* ---------------------------------------------- requests served side by side
\* one iteration from the point where `await kv.get` has returned `existing`
SyncStepAfterGet(st, change, clinicId, existing) ==
  LET type      == Field(change, "type")
      data      == Field(change, "data")
      localId   == Field(change, "localId")
      timestamp == Field(change, "timestamp")
  IN IF Truthy(Field(data, "id")) /\ IsConflict(existing, timestamp)
     THEN PushConflict(st, type, clinicId, data, localId, existing)
     ELSE ApplyChange(st, type, clinicId, data, localId)

\* the key an iteration reads: `${type}:${clinicId}:${data.id}`
ReadKey(change, clinicId) ==
  KvKey(Field(change, "type"), clinicId, Field(Field(change, "data"), "id"))

\* the one-entry batches a client session may send
SessionBatches ==
  {<<Json(NewChange(ty, e, d, t, 1))>> :
     ty \in LogTypes, e \in Entities, d \in KvPayloads, t \in 1..MaxClock}

\* a request of some client session of the clinic reaches the handler
Arrive(batch) ==
  /\ Len(calls) < MaxSyncs
  /\ calls' = Append(calls, [batch |-> batch, answered |-> FALSE,
                             result |-> NoResult, verdicts |-> <<>>])
  /\ serving' = Append(serving, [pos |-> 1, awaiting |-> "get",
                                 existing |-> Undefined,
                                 synced |-> <<>>, conflicts |-> <<>>])
  /\ trace' = <<>> /\ outcome' = NoOutcome /\ lastOp' = NoOp
  /\ UNCHANGED <<now, changes, storage, isOnline, syncing, kv, genCount,
                 syncCount, applied, origin>>

\* `await kv.get(...)` of the current entry of request i returns (for an entry
\* without data.id there is no read and `existing` stays unset)
ServerGet(i) ==
  /\ serving[i].pos <= Len(calls[i].batch)
  /\ serving[i].awaiting = "get"
  /\ LET change == calls[i].batch[serving[i].pos]
     IN serving' = [serving EXCEPT
          ![i].existing = IF Truthy(Field(Field(change, "data"), "id"))
                          THEN KvGet(kv, ReadKey(change, UserClinic))
                          ELSE Undefined,
          ![i].awaiting = "set"]
  /\ trace' = <<>> /\ outcome' = NoOutcome /\ lastOp' = NoOp
  /\ UNCHANGED <<now, changes, storage, isOnline, syncing, calls, kv, genCount,
                 syncCount, applied, origin>>

\* the rest of the iteration of request i: the comparison with what was read,
\* then conflicts.push, or kv.set and synced.push
ServerSet(i) ==
  /\ serving[i].pos <= Len(calls[i].batch)
  /\ serving[i].awaiting = "set"
  /\ LET change == calls[i].batch[serving[i].pos]
         st  == [kv |-> kv, gen |-> genCount, synced |-> serving[i].synced,
                 conflicts |-> serving[i].conflicts]
         st2 == SyncStepAfterGet(st, change, UserClinic, serving[i].existing)
         rec == StepRecord(st, st2, change, UserClinic)
     IN /\ kv' = st2.kv
        /\ genCount' = st2.gen
        /\ serving' = [serving EXCEPT ![i].pos = @ + 1,
                                      ![i].awaiting = "get",
                                      ![i].existing = Undefined,
                                      ![i].synced = st2.synced,
                                      ![i].conflicts = st2.conflicts]
        /\ trace' = <<rec>>
        /\ applied' = Written(applied, <<rec>>)
        /\ origin' = Created(origin, <<rec>>)
  /\ outcome' = NoOutcome /\ lastOp' = NoOp
  /\ UNCHANGED <<now, changes, storage, isOnline, syncing, calls, syncCount>>

\* c.json({ synced, conflicts }) of request i
ServerAnswer(i) ==
  /\ serving[i].pos > Len(calls[i].batch)
  /\ ~calls[i].answered
  /\ calls' = [calls EXCEPT
       ![i].answered = TRUE,
       ![i].result = SyncResponse([synced |-> serving[i].synced,
                                   conflicts |-> serving[i].conflicts])]
  /\ trace' = <<>> /\ outcome' = NoOutcome /\ lastOp' = NoOp
  /\ UNCHANGED <<now, changes, storage, isOnline, syncing, kv, genCount,
                 syncCount, applied, serving, origin>>

\* the handler of POST /sync serving the requests of several sessions, its
\* awaits interleaved
NextRace ==
  \/ \E batch \in SessionBatches : Arrive(batch)
  \/ \E i \in 1..Len(serving) : ServerGet(i)
  \/ \E i \in 1..Len(serving) : ServerSet(i)
  \/ \E i \in 1..Len(serving) : ServerAnswer(i)

SpecRace == Init /\ [][NextRace]_vars

\* ------------------------------------------------------------ two clinics
\* a clinic other than the one of the signed-in user
OtherClinic == <<"c2">>

\* the `type` strings a request may carry: 'owner' and 'owner:c2'
TenantTypes == {<<"owner">>, <<"owner">> \o OtherClinic}

\* payloads with and without an id, with and without a clinicId of their own
TenantPayloads ==
  {Spread(h, [fullName |-> <<"Jane">>]) :
     h \in {Undefined, [id |-> KnownId], [clinicId |-> OtherClinic],
            [id |-> KnownId, clinicId |-> OtherClinic]}}

\* the one-entry batches a session of the user's clinic may send
TenantBatches ==
  {<<Json(NewChange(ty, e, d, t, 1))>> :
     ty \in TenantTypes, e \in Entities, d \in TenantPayloads, t \in 1..MaxClock}

\* GET /owners/:id for a user of clinic clinicId:
\* kv.get(`owner:${clinicId}:${ownerId}`)
OwnerLookup(store, clinicId, ownerId) ==
  KvGet(store, KvKey(<<"owner">>, clinicId, ownerId))

\* the ids a user may put in the path of GET /owners/:id
LookupIds ==
  {KnownId, UserClinic \o KnownId}
    \cup {UserClinic \o NewId(UserClinic, n) : n \in 1..MaxSyncs}

\* the handler of POST /sync serving sessions of the user's clinic
NextTenant ==
  \/ \E batch \in TenantBatches : Arrive(batch)
  \/ \E i \in 1..Len(serving) : ServerGet(i)
  \/ \E i \in 1..Len(serving) : ServerSet(i)
  \/ \E i \in 1..Len(serving) : ServerAnswer(i)

SpecTenant == Init /\ [][NextTenant]_vars

\* the client and the server with a store that may fail
NextKvFail ==
  \/ \E ty \in LogTypes, e \in Entities, d \in KvPayloads, t \in now..MaxClock :
       \E r \in Suffixes(t) : AddChange(ty, e, d, t, r)
  \/ OnlineEvent
  \/ OfflineEvent
  \/ ManualSync
  \/ \E i \in 1..Len(calls) : ServerSync(i)
  \/ \E i \in 1..Len(calls) : SyncFails(i)
  \/ \E i \in 1..Len(calls) : SyncReturns(i)
  \/ \E i \in 1..Len(calls) : \E faults \in SUBSET (1..MaxChanges) :
       ServerSyncThrows(i, faults)

SpecKvFail == Init /\ [][NextKvFail]_vars

\* saveChanges when localStorage.setItem may throw (`full`): the catch logs
\* the error, what is stored stays as it was, and saveChanges returns normally
TrySave(store, cs, full) ==
  [store |-> IF full THEN store ELSE saveChanges(cs), threw |-> FALSE]

\* addChange while localStorage takes no more: the entry is pushed, setItem
\* throws inside saveChanges, addChange returns the entry
AddChangeUnsaved(type, entity, data, t, rnd) ==
  /\ Len(changes) < MaxChanges
  /\ now' = t
  /\ changes' = Append(changes, NewChange(type, entity, data, t, rnd))
  /\ LET save == TrySave(storage, changes', TRUE)
     IN /\ storage' = save.store
        /\ lastOp' = [op |-> "addChange", arg |-> <<t, rnd>>, was |-> changes,
                      saved |-> FALSE, threw |-> save.threw]
  /\ trace' = <<>> /\ outcome' = NoOutcome
  /\ UNCHANGED <<isOnline, syncing, calls, kv, genCount, syncCount, applied,
                 serving, origin>>

\* markAsSynced while localStorage takes no more: the entry is marked in
\* memory, setItem throws inside saveChanges, markAsSynced returns
MarkAsSyncedUnsaved(changeId) ==
  /\ WithId(changes, changeId) /= {}
  /\ changes' = markAsSynced(changes, changeId)
  /\ LET save == TrySave(storage, changes', TRUE)
     IN /\ storage' = save.store
        /\ lastOp' = [op |-> "markAsSynced", arg |-> changeId, was |-> changes,
                      saved |-> FALSE, threw |-> save.threw]
  /\ trace' = <<>> /\ outcome' = NoOutcome
  /\ UNCHANGED <<now, isOnline, syncing, calls, kv, genCount, syncCount,
                 applied, serving, origin>>

\* the change log driven through the methods of OfflineManager, one call at a
\* time
NextLog ==
  \/ \E ty \in LogTypes, e \in Entities, d \in LogPayloads, t \in now..MaxClock :
       \E r \in Suffixes(t) : AddChange(ty, e, d, t, r)
  \/ \E id \in CallerIds : MarkAsSyncedCall(id)
  \/ ClearSyncedCall
  \/ Reload

SpecLog == Init /\ [][NextLog]_vars

\* the change log and the requests that carry its pending entries
NextLogSync ==
  \/ \E ty \in LogTypes, e \in Entities, d \in LogPayloads, t \in now..MaxClock :
       \E r \in Suffixes(t) : AddChange(ty, e, d, t, r)
  \/ \E id \in CallerIds : MarkAsSyncedCall(id)
  \/ ClearSyncedCall
  \/ OnlineEvent

SpecLogSync == Init /\ [][NextLogSync]_vars

\* the change log over a localStorage that may refuse a write
NextLogFail ==
  \/ \E ty \in LogTypes, e \in Entities, d \in LogPayloads, t \in now..MaxClock :
       \E r \in Suffixes(t) : AddChange(ty, e, d, t, r)
  \/ \E ty \in LogTypes, e \in Entities, d \in LogPayloads, t \in now..MaxClock :
       \E r \in Suffixes(t) : AddChangeUnsaved(ty, e, d, t, r)
  \/ \E id \in CallerIds : MarkAsSyncedCall(id)
  \/ \E id \in CallerIds : MarkAsSyncedUnsaved(id)
  \/ ClearSyncedCall
  \/ Reload

SpecLogFail == Init /\ [][NextLogFail]_vars

\* ================================================================ claims
\* the instant an ISO timestamp denotes
StampValue(s) == s[1] * 10 + s[2]

IsCreate(c) == c.type = <<"create">>
IsUpdate(c) == c.type = <<"update">>

\* the step's target key held a record when the step began
HadRecord(s) == s.key \in DOMAIN s.before

\* that record carries an updatedAt
HadStamp(s) == HadRecord(s) /\ "updatedAt" \in DOMAIN s.before[s.key]

\* that record's updatedAt is later than the change's timestamp
StoredIsNewer(s) ==
  HadStamp(s) /\ StampValue(s.before[s.key].updatedAt) > StampValue(s.change.timestamp)

TraceSteps == {trace[i] : i \in 1..Len(trace)}

\* C1: after addChange calls and a sync whose request succeeded and reported no
\* conflicts, every recorded entry has been marked synced and pruned: the log
\* is empty.
C1_SyncedLogIsEmpty ==
  (/\ outcome.ended
   /\ outcome.ok
   /\ outcome.result.conflicts = <<>>
   /\ outcome.before = outcome.batch)
    => outcome.after = <<>>

\* C2: for every entry whose target key already holds a record, the verdict is
\* accepted exactly when the stored updatedAt is absent or not later than the
\* entry's timestamp, and conflicted otherwise.
C2_VerdictRule ==
  \A s \in TraceSteps :
    HadRecord(s) =>
      /\ s.verdict \in {"synced", "conflict"}
      /\ (s.verdict = "synced") <=> ~StoredIsNewer(s)

\* C2 witness: one run that conflicts on one existing record and accepts on an
\* existing record whose updatedAt equals the entry's timestamp
C2_Witness ==
  /\ \E s \in TraceSteps : StoredIsNewer(s) /\ s.verdict = "conflict"
  /\ \E s \in TraceSteps :
       /\ HadStamp(s)
       /\ s.before[s.key].updatedAt = s.change.timestamp
       /\ s.verdict = "synced"

\* C3: a conflicted entry, and so every entry older than the stored updatedAt,
\* leaves the store as it was.
C3_ConflictLeavesStore ==
  \A s \in TraceSteps :
    /\ s.verdict = "conflict" => s.after = s.before
    /\ StoredIsNewer(s) => (s.verdict = "conflict" /\ s.after = s.before)

\* C3 witness: an update older than the stored record was answered with a
\* conflict while the store holds that record
C3_Witness ==
  \E s \in TraceSteps :
    /\ IsUpdate(s.change)
    /\ StoredIsNewer(s)
    /\ s.verdict = "conflict"
    /\ kv[s.key] = s.before[s.key]

\* C4: once an earlier batch had an update accepted on an entity, the first
\* update of a later batch on that entity with an older timestamp is
\* conflicted and the stored record stays the one written before.
C4_StaleUpdateIsConflicted ==
  [][\A j \in 1..Len(trace') :
       LET s == trace'[j]
       IN (/\ IsUpdate(s.change)
           /\ s.key \in DOMAIN applied
           /\ \A m \in 1..(j - 1) : trace'[m].key /= s.key
           /\ StampValue(s.change.timestamp) < StampValue(applied[s.key]))
          => (s.verdict = "conflict" /\ s.after[s.key] = kv[s.key])]_vars

\* C5: the stored updatedAt of a key never decreases, and no change older than
\* the stored updatedAt is applied.
C5_UpdatedAtNeverDecreases ==
  \A s \in TraceSteps :
    /\ HadStamp(s) =>
         /\ "updatedAt" \in DOMAIN s.after[s.key]
         /\ StampValue(s.after[s.key].updatedAt)
              >= StampValue(s.before[s.key].updatedAt)
    /\ StoredIsNewer(s) => s.after = s.before

\* C6: after an accepted entry the record under its key has updatedAt equal to
\* the entry's timestamp.
C6_AcceptedSetsUpdatedAt ==
  \A s \in TraceSteps :
    s.verdict = "synced" =>
      /\ s.key \in DOMAIN s.after
      /\ Field(s.after[s.key], "updatedAt") = s.change.timestamp

\* C7: an accepted update keeps every field of the previous record that its
\* payload does not carry.
C7_UpdateMergesFields ==
  \A s \in TraceSteps :
    (IsUpdate(s.change) /\ HadRecord(s) /\ s.verdict = "synced") =>
      \A f \in (DOMAIN s.before[s.key] \ DOMAIN s.change.data) \ {"updatedAt"} :
        /\ f \in DOMAIN s.after[s.key]
        /\ s.after[s.key][f] = s.before[s.key][f]

\* C8: entries run in submitted order and see each other: two accepted updates
\* A then B of one batch on one entity leave B's payload merged over A's result.
C8_LaterMergedOverEarlier ==
  \A i \in 1..Len(trace) : \A j \in (i + 1)..Len(trace) :
    LET a == trace[i]
        b == trace[j]
    IN (/\ IsUpdate(a.change) /\ IsUpdate(b.change)
        /\ a.key = b.key
        /\ a.verdict = "synced" /\ b.verdict = "synced"
        /\ StampValue(b.change.timestamp) >= StampValue(a.change.timestamp)
        /\ \A m \in (i + 1)..(j - 1) : trace[m].key /= a.key)
       => /\ b.before[b.key] = a.after[a.key]
          /\ \A f \in (DOMAIN a.after[a.key] \ DOMAIN b.change.data) \ {"updatedAt"} :
               /\ f \in DOMAIN b.after[b.key]
               /\ b.after[b.key][f] = a.after[a.key][f]
          /\ \A f \in DOMAIN b.change.data \ {"updatedAt"} :
               b.after[b.key][f] = b.change.data[f]

\* C9: a create and a later update of the same record that has no id yet, sent
\* in one batch, are both accepted and leave one record with the fields of both
\* and the update's timestamp.
C9_CreateThenUpdateOneRecord ==
  \A i \in 1..Len(trace) : \A j \in (i + 1)..Len(trace) :
    LET a == trace[i]
        b == trace[j]
    IN (/\ Len(trace) = 2
        /\ IsCreate(a.change) /\ ~Truthy(Field(a.change.data, "id"))
        /\ IsUpdate(b.change) /\ ~Truthy(Field(b.change.data, "id")))
       => /\ a.verdict = "synced" /\ b.verdict = "synced"
          /\ Cardinality(DOMAIN b.after \ DOMAIN a.before) = 1
          /\ \A k \in DOMAIN b.after \ DOMAIN a.before :
               /\ \A f \in DOMAIN a.change.data \cup DOMAIN b.change.data :
                    f \in DOMAIN b.after[k]
               /\ Field(b.after[k], "updatedAt") = b.change.timestamp

C14_MarkAsSyncedIdempotent ==
  \A id \in CallerIds :
    LET once == markAsSynced(changes, id)
        stored == StorageAfterMark(storage, changes, id)
    IN /\ markAsSynced(once, id) = once
       /\ StorageAfterMark(stored, once, id) = stored
       /\ (\A i \in WithId(changes, id) : changes[i].synced) =>
            (once = changes /\ stored = storage)

\* C14 witness: markAsSynced was just called with the id of an entry that is
\* synced, next to an entry that is still pending
C14_Witness ==
  /\ lastOp.op = "markAsSynced"
  /\ \E i \in WithId(changes, lastOp.arg) : changes[i].synced
  /\ \E i \in 1..Len(changes) : ~changes[i].synced

\* -------------------------------------------------------- the store may fail
\* C11: the answer to a batch holds one verdict for every entry of the batch,
\* each entry in exactly one of synced and conflicts, whatever happened to its
\* siblings.
C11_OneVerdictPerEntry ==
  /\ \A s \in TraceSteps : s.verdict \in {"synced", "conflict"}
  /\ \A i \in 1..Len(calls) :
       calls[i].answered =>
         Len(calls[i].result.synced) + Len(calls[i].result.conflicts)
           = Len(calls[i].batch)

\* ------------------------------------------------------ the request may fail
\* C12: when the sync request fails, syncOfflineChanges ends in failure, the
\* log and what is stored of it are as before, no entry was marked or pruned,
\* and the mock fallback of apiCall has produced no sync verdict.
C12_FailedSyncLeavesLog ==
  (outcome.ended /\ ~outcome.fetched) =>
    /\ ~outcome.ok
    /\ outcome.result = NoResult
    /\ outcome.after = outcome.before
    /\ changes = outcome.before
    /\ storage = saveChanges(outcome.before)

\* C12 witness: a request that carried pending entries failed, and the entries
\* are still pending in the log
C12_Witness ==
  /\ outcome.ended
  /\ ~outcome.fetched
  /\ outcome.batch /= <<>>
  /\ \E i \in 1..Len(changes) :
       /\ ~changes[i].synced
       /\ \E j \in 1..Len(outcome.batch) : outcome.batch[j].id = changes[i].id

\* C13: at most one sync request of the client is in flight at any time.
C13_OneRequestInFlight == Len(calls) <= 1

\* the positions of the pending entries of a list
PendingAt(cs) == {i \in 1..Len(cs) : ~cs[i].synced}

\* the position of the k-th pending entry of a list
KthPending(cs, k) ==
  CHOOSE i \in PendingAt(cs) : Cardinality({j \in PendingAt(cs) : j <= i}) = k

\* `kept` holds the pending entries of cs and nothing else, each as it was and
\* in the order they have in cs
IsPendingOf(kept, cs) ==
  /\ Len(kept) = Cardinality(PendingAt(cs))
  /\ \A k \in 1..Len(kept) : kept[k] = cs[KthPending(cs, k)]

\* C15: clearSynced removes every synced entry and leaves the pending entries
\* as they were and in the same relative order, whatever the log it starts from.
C15_ClearSyncedKeepsPending ==
  lastOp.op = "clearSynced" =>
    /\ IsPendingOf(changes, lastOp.was)
    /\ storage = saveChanges(changes)

\* C15 witness: clearSynced was just called on a log whose first entry was
\* synced and whose second was pending, and only the second is left
C15_Witness ==
  /\ lastOp.op = "clearSynced"
  /\ Len(lastOp.was) = 2
  /\ lastOp.was[1].synced
  /\ ~lastOp.was[2].synced
  /\ changes = <<lastOp.was[2]>>

\* an entry whatever its sync state
Core(c) == [c EXCEPT !.synced = FALSE]

Cores(cs) == [i \in 1..Len(cs) |-> Core(cs[i])]

\* a is b with some of its elements left out
RECURSIVE IsSubseq(_, _)
IsSubseq(a, b) ==
  \/ a = <<>>
  \/ /\ b /= <<>>
     /\ \/ Head(a) = Head(b) /\ IsSubseq(Tail(a), Tail(b))
        \/ IsSubseq(a, Tail(b))

\* a step that put one entry at the end of the log
Appended == Len(changes') = Len(changes) + 1 /\ SubSeq(changes', 1, Len(changes)) = changes

\* the entry of a request is the entry of the log
Carries(sent, c) ==
  /\ sent.id = c.id
  /\ sent.type = c.type
  /\ sent.entity = c.entity
  /\ sent.timestamp = c.timestamp
  /\ Field(sent, "data") = c.data
  /\ sent.synced = FALSE

\* C16: after any interleaving of addChange, markAsSynced and clearSynced the
\* entries keep the order they were inserted in, getPendingChanges returns the
\* entries that are not synced in that order, and a request that leaves carries
\* them in that order.
C16_PendingInInsertionOrder ==
  [][/\ Appended \/ IsSubseq(Cores(changes'), Cores(changes))
     /\ IsPendingOf(getPendingChanges', changes')
     /\ Len(calls') > Len(calls) =>
          LET sent == calls'[Len(calls')].batch
          IN /\ Len(sent) = Cardinality(PendingAt(changes))
             /\ \A k \in 1..Len(sent) :
                  Carries(sent[k], changes[KthPending(changes, k)])]_vars

\* C16 witness: a request in flight carries two different entries, the pending
\* entries of the log in the order of the log
C16_Witness ==
  /\ Len(changes) = 2
  /\ changes[1] /= changes[2]
  /\ PendingAt(changes) = {1, 2}
  /\ \E i \in 1..Len(calls) :
       /\ Len(calls[i].batch) = 2
       /\ Carries(calls[i].batch[1], changes[1])
       /\ Carries(calls[i].batch[2], changes[2])

\* C17: no two entries of the log share a local id.
C17_LocalIdsDistinct ==
  \A i, j \in 1..Len(changes) : changes[i].id = changes[j].id => i = j

\* --------------------------------------------------- the storage may be full
\* C18: when the write to localStorage fails, addChange reports the failure to
\* its caller.
C18_SaveFailureReported ==
  (lastOp.op = "addChange" /\ ~lastOp.saved) => lastOp.threw

\* -------------------------------------------------------- the life of an entry
\* the pending entries of a list, in its order
PendingList(cs) ==
  [k \in 1..Cardinality(PendingAt(cs)) |-> cs[KthPending(cs, k)]]

\* the entry a step has put at the end of the log, if it has
NewEntries == IF Appended THEN <<changes'[Len(changes')]>> ELSE <<>>

\* C19: the sync state of an entry only moves from pending to synced: the
\* pending entries after any operation, a reload of the log from localStorage
\* included, were pending before it or have just been added.
C19_SyncedStaysSynced ==
  [][IsSubseq(Cores(PendingList(changes')),
              Cores(PendingList(changes)) \o NewEntries)]_vars

\* `new` is `old` with synced entries left out and nothing else changed but
\* the sync state of an entry
RECURSIVE OnlyDropsSynced(_, _)
OnlyDropsSynced(old, new) ==
  IF old = <<>> THEN new = <<>>
  ELSE \/ /\ new /= <<>>
          /\ Core(Head(old)) = Core(Head(new))
          /\ OnlyDropsSynced(Tail(old), Tail(new))
       \/ /\ Head(old).synced
          /\ OnlyDropsSynced(Tail(old), new)

\* the entries of the next state that were in the log before the step
Survivors == IF Appended THEN SubSeq(changes', 1, Len(changes)) ELSE changes'

\* C20: an operation of the log removes an entry only if the entry is synced,
\* and it changes no field of an entry it keeps other than the sync state.
C20_OnlySyncedRemoved ==
  [][OnlyDropsSynced(changes, Survivors)]_vars

\* C20 witness: clearSynced was just called on a log whose first entry was
\* pending and whose second was synced, and only the first is left
C20_Witness ==
  /\ lastOp.op = "clearSynced"
  /\ Len(lastOp.was) = 2
  /\ ~lastOp.was[1].synced
  /\ lastOp.was[2].synced
  /\ changes = <<lastOp.was[1]>>

\* ------------------------------------------------------------ after a verdict
\* a step in which the status listener starts a sync: the window comes online
\* and a request leaves
AutomaticSync == ~isOnline /\ isOnline' /\ Len(calls') = Len(calls) + 1

\* C21: an entry that was answered as a conflict stays pending in the log and
\* is not in the request of a sync that the status listener starts.
C21_ConflictNotResent ==
  [][\A k \in 1..Len(outcome.verdicts) :
       (outcome.ended /\ outcome.fetched /\ outcome.verdicts[k] = "conflict") =>
         /\ \E i \in 1..Len(changes) :
              /\ changes[i].id = outcome.batch[k].id
              /\ ~changes[i].synced
         /\ AutomaticSync =>
              \A j \in 1..Len(calls'[Len(calls')].batch) :
                calls'[Len(calls')].batch[j] /= outcome.batch[k]]_vars

\* C22: the status listener runs when the reachability state changes and only
\* then: a window event that leaves isOnline as it is starts no sync. (The
\* sync button starts one without a change of state; it is enabled only while
\* online and not syncing.)
C22_NoChangeNoSync ==
  [][(isOnline' = isOnline /\ Len(calls') > Len(calls)) =>
       (isOnline /\ ~syncing)]_vars

\* C23: an update that names an entity id under which the store holds no
\* record is answered as a conflict, and the batch is answered all the same.
C23_UnknownIdIsConflict ==
  \A s \in TraceSteps :
    (/\ IsUpdate(s.change)
     /\ Truthy(Field(s.change.data, "id"))
     /\ ~HadRecord(s))
      => /\ s.verdict = "conflict"
         /\ s.after = s.before

\* ------------------------------------------------- requests served side by side
\* C24: the acceptance check is atomic per key: a write that the handler
\* accepts passes the check against the record the store holds at the moment
\* of the write, whatever other requests have done since the read.
C24_AcceptanceIsAtomic ==
  [][\A i \in 1..Len(serving) :
       Len(serving'[i].synced) > Len(serving[i].synced) =>
         LET change == calls[i].batch[serving[i].pos]
         IN Truthy(Field(Field(change, "data"), "id")) =>
              ~IsConflict(KvGet(kv, ReadKey(change, UserClinic)),
                          Field(change, "timestamp"))]_vars

\* ------------------------------------------------------------------ two clinics
\* C25: requests of the user's clinic create no record that a lookup of
\* another clinic returns.
C25_TenantsApart ==
  \A ownerId \in LookupIds : OwnerLookup(kv, OtherClinic, ownerId) = Undefined

\* C30: a record written by the handler carries the id its key ends with and
\* the clinic of the requesting user, whatever the payload says.
C30_WrittenIdAndClinic ==
  \A s \in TraceSteps :
    s.verdict = "synced" =>
      /\ s.key \in DOMAIN s.after
      /\ s.after[s.key].id = s.id
      /\ s.after[s.key].clinicId = UserClinic
      /\ s.key = KvKey(s.change.type, UserClinic, s.after[s.key].id)
      /\ \A f \in DOMAIN s.change.data \ {"id", "clinicId"} :
           s.after[s.key][f] = s.change.data[f]

\* C30 witness: an entry whose payload names another clinic and no id was
\* written under a generated id with the clinic of the user
C30_Witness ==
  \E s \in TraceSteps :
    /\ s.verdict = "synced"
    /\ Field(s.change.data, "clinicId") = OtherClinic
    /\ ~Truthy(Field(s.change.data, "id"))
    /\ s.after[s.key].clinicId = UserClinic
    /\ s.after[s.key].id = s.id

\* ------------------------------------------------- verdicts and entries
\* the local ids of the entries a request carries
BatchIds(batch) == {batch[j].id : j \in 1..Len(batch)}

\* C27: every item of `synced` and of `conflicts` in a response carries as
\* localId the id of an entry of the request it answers.
C27_VerdictNamesEntry ==
  \A i \in 1..Len(calls) :
    calls[i].answered =>
      /\ \A k \in 1..Len(calls[i].result.synced) :
           Field(calls[i].result.synced[k], "localId") \in BatchIds(calls[i].batch)
      /\ \A k \in 1..Len(calls[i].result.conflicts) :
           Field(calls[i].result.conflicts[k], "localId")
             \in BatchIds(calls[i].batch)

\* ------------------------------------------ entries recorded in flight
\* the entries of a list, as a set
Entries(cs) == {cs[k] : k \in 1..Len(cs)}

\* the pending entries that were in the log when a run of syncOfflineChanges
\* ended but not in the request it had sent
RecordedInFlight ==
  {e \in Entries(outcome.before) : ~e.synced /\ e \notin Entries(outcome.batch)}

\* C28: when a sync ends, every entry that addChange recorded after its
\* request left is still in the log, pending, and is what the log persists.
C28_InFlightEntryKept ==
  outcome.ended =>
    \A e \in RecordedInFlight :
      /\ e \in Entries(outcome.after)
      /\ e \in Entries(loadChanges(<<>>, storage))

\* C28 witness: a sync whose response accepted its entry has ended with an
\* entry recorded in flight still pending in the log
C28_Witness ==
  /\ outcome.ended
  /\ outcome.fetched
  /\ outcome.result.synced /= <<>>
  /\ \E e \in RecordedInFlight : e \in Entries(changes) /\ ~e.synced

\* ------------------------------------------------ applied at most once
\* the entry of a request is a create that names no record
IdlessCreate(change) ==
  /\ change.type = <<"create">>
  /\ ~Truthy(Field(change.data, "id"))

\* the keys of the records that the writes for one entry have created
CreatedBy(change) == {key \in DOMAIN origin : origin[key] = change}

\* the log has held one entry only with the local id of this one
OneEntryOf(change) ==
  Cardinality({k \in 1..Len(changes) : changes[k].id = change.id}) = 1

\* C29: the writes for one create entry without an id have created at most
\* one record of the store, however often the entry was sent.
C29_CreateStoredOnce ==
  \A key \in DOMAIN origin :
    (IdlessCreate(origin[key]) /\ OneEntryOf(origin[key]))
      => Cardinality(CreatedBy(origin[key])) <= 1

\* ------------------------------------------------- the end of an attempt
\* the client and the server with one kind of entry. The scheduling the code
\* gives: once the response of fetch is there, the continuation of
\* syncOfflineChanges after its await runs (the browser's task queue). Nothing
\* in apiCall makes fetch settle: it sets no timer and passes no signal, so
\* neither the server's answer nor the rejection of fetch is forced.
NextLive ==
  \/ \E ty \in LogTypes, e \in Entities, d \in LogPayloads, t \in now..MaxClock :
       \E r \in Suffixes(t) : AddChange(ty, e, d, t, r)
  \/ OnlineEvent
  \/ OfflineEvent
  \/ ManualSync
  \/ \E i \in 1..Len(calls) : ServerSync(i)
  \/ \E i \in 1..Len(calls) : SyncFails(i)
  \/ \E i \in 1..Len(calls) : SyncReturns(i)

SpecLive ==
  /\ Init
  /\ [][NextLive]_vars
  /\ WF_vars(\E i \in 1..Len(calls) : SyncReturns(i))

\* C26: whenever the client is syncing, it later is not: every attempt that
\* was started ends, by a response, a failure or a timeout.
C26_SyncEnds == syncing ~> ~syncing

====
